---- MODULE Spec2Model ----
(***************************************************************************)
(* claude-sync / claude-sync-extended: the merge engine, the staging       *)
(* builder and the sync orchestrator of each tool, as state machines.      *)
(*                                                                         *)
(* Files are optional values: NoFile (the empty tuple) when the path does  *)
(* not exist, <<c>> when it exists with content c.  JSON objects and       *)
(* directory trees are functions with a finite domain (a key or a relative *)
(* path that is absent is not in the domain).  Text is a sequence of       *)
(* one-character strings.                                                  *)
(***************************************************************************)
EXTENDS Integers, Sequences, FiniteSets, TLC

\* ---------------------------------------------------------------- bounds
\* values a tool registration can take (1..MaxVal)
MaxVal == 2
\* modification times range over 1..MaxMtime
MaxMtime == 2
\* longest context document drawn as an input
MaxLen == 2
\* number of context merges in one behaviour
MaxMerges == 2
\* number of sync_git calls in one behaviour
MaxOps == 2
\* number of syncs two machines run in turn
MaxSyncs == 6

VARIABLES
    \* structured-config merge (merge_claude_config)
    cfgLocal, cfgRemote, cfgPre, cfgPc,
    \* directory merge (merge_directory)
    dirLocal, dirRemote, dirPre, dirMode, dirPc,
    \* context-document merge (merge_claude_md / merge_context)
    mdVariant, mdLocal, mdBackup, mdPre, mdPreBackup, mdOrig, mdRemote,
    mdPrevRemote, mdSrc, mdCount,
    \* the machine running claude-sync-extended.py:
    \* config["sync_level"]
    sync_level,
    \* the live items under ~ (item name -> optional content)
    home,
    \* CLAUDE.md in the directory the tool is invoked from
    origMd,
    \* sync_dir/repo, the working copy: NoFile before the clone, else
    \* <<[dirs, md, bak]>>: the machine directories, and CLAUDE.md and
    \* CLAUDE.md.bak at its root (the process's cwd during sync_git)
    wc,
    \* sync_dir/staging/<machine_id>: NoFile or <<[entries, meta]>>
    staging,
    \* .bak files written next to live items (path -> file)
    backups,
    \* the live items and the .bak files before the last sync_git call
    preHome, preBackups,
    \* what the last sync_git call did: [op, result, git, attempted, errors,
    \* staged]
    opLog,
    \* sync_git calls so far
    opCount,
    \* where the running sync_git call is: idle, pull, push (off when the
    \* tool is not the one run)
    pc,
    \* the staging tree before the last prepare_sync_data call, and the
    \* sync_level that call ran under
    prevStaging, stagedLevel,
    \* the machine running claude-sync.py:
    \* CLAUDE.md in the directory the tool is invoked from
    sOrigMd,
    \* sync_dir/repo: NoFile before the clone, else <<[md, bak]>>: the
    \* *.md files at its root by stem (CLAUDE is the file merge_context
    \* writes, the process's cwd being the working copy), and CLAUDE.md.bak
    sRepo,
    \* what the last sync_git call did: [op, result, git, merged]
    sLog,
    \* sync_git calls so far, and where the running call is
    sCount, sPc,
    \* two machines syncing in turn through one repository:
    \* the tool both run (extended or simple)
    rTool,
    \* machine id -> [orig, wc, head]: CLAUDE.md in the directory the tool is
    \* invoked from, the machine's working copy (its cwd during sync_git)
    \* and the commit the working copy is at
    rDocs,
    \* the tree at the head of the shared repository
    rRepo,
    \* the machine whose turn it is, and the syncs run so far
    rTurn, rCount,
    \* rDocs and rRepo before the last sync
    rPrevDocs, rPrevRepo

cfgVars == <<cfgLocal, cfgRemote, cfgPre, cfgPc>>
dirVars == <<dirLocal, dirRemote, dirPre, dirMode, dirPc>>
mdVars == <<mdVariant, mdLocal, mdBackup, mdPre, mdPreBackup, mdOrig,
            mdRemote, mdPrevRemote, mdSrc, mdCount>>
sysVars == <<sync_level, home, origMd, wc, staging, backups, preHome,
             preBackups, opLog, opCount, pc, prevStaging, stagedLevel>>
simpleVars == <<sOrigMd, sRepo, sLog, sCount, sPc>>
roundVars == <<rTool, rDocs, rRepo, rTurn, rCount, rPrevDocs, rPrevRepo>>
vars == <<cfgVars, dirVars, mdVars, sysVars, simpleVars, roundVars>>

\* ------------------------------------------------------------- helpers
NoFile == <<>>
EmptyMap == <<>>

Exists(file) == file # NoFile

\* all functions from a subset of keys to vals (finite maps / dicts)
Maps(keys, vals) == UNION {[S -> vals] : S \in SUBSET keys}

\* dict.update: the argument's entries win on key collision
dict_update(d, other) == other @@ d

\* ============================================================= JSON config
\* json.load / json.dump: a JSON file holds an object, or text that does
\* not parse.
Malformed == [valid |-> FALSE, obj |-> EmptyMap]

json_dump(obj) == [valid |-> TRUE, obj |-> obj]

json_load_ok(text) == text.valid

json_load(text) == text.obj

preserve_keys == {"userID", "oauthAccount"}

\* mutant of merge_project: local registrations win on key collision
merge_project_LocalWins(local_project, project_config) ==
    IF "mcpServers" \in DOMAIN project_config
    THEN LET base == IF "mcpServers" \in DOMAIN local_project
                     THEN local_project["mcpServers"]
                     ELSE EmptyMap
         IN  [k \in DOMAIN local_project \cup {"mcpServers"} |->
                 IF k = "mcpServers"
                 THEN dict_update(project_config["mcpServers"], base)
                 ELSE local_project[k]]
    ELSE local_project

\* a project present on both sides: only the mcpServers sub-map is merged
merge_project(local_project, project_config) ==
    IF "mcpServers" \in DOMAIN project_config
    THEN LET base == IF "mcpServers" \in DOMAIN local_project
                     THEN local_project["mcpServers"]
                     ELSE EmptyMap
         IN  [k \in DOMAIN local_project \cup {"mcpServers"} |->
                 IF k = "mcpServers"
                 THEN dict_update(base, project_config["mcpServers"])
                 ELSE local_project[k]]
    ELSE local_project

merge_projects(local_projects, remote_projects) ==
    [p \in DOMAIN local_projects \cup DOMAIN remote_projects |->
        IF p \notin DOMAIN remote_projects THEN local_projects[p]
        ELSE IF p \notin DOMAIN local_projects THEN remote_projects[p]
        ELSE merge_project(local_projects[p], remote_projects[p])]

\* mutant of merged_config: the preserve-set test is missing
merged_config_NoPreserve(local_config, remote_config) ==
    LET withProjects ==
            IF "projects" \in DOMAIN remote_config
            THEN [k \in DOMAIN local_config \cup {"projects"} |->
                    IF k = "projects"
                    THEN merge_projects(
                             IF "projects" \in DOMAIN local_config
                             THEN local_config["projects"] ELSE EmptyMap,
                             remote_config["projects"])
                    ELSE local_config[k]]
            ELSE local_config
        other == DOMAIN remote_config \ {"projects"}
    IN  [k \in DOMAIN withProjects \cup other |->
            IF k \in other THEN remote_config[k] ELSE withProjects[k]]

\* mutant of merged_config: a remote top-level value only fills a key the
\* local config lacks
merged_config_KeepLocal(local_config, remote_config) ==
    LET withProjects ==
            IF "projects" \in DOMAIN remote_config
            THEN [k \in DOMAIN local_config \cup {"projects"} |->
                    IF k = "projects"
                    THEN merge_projects(
                             IF "projects" \in DOMAIN local_config
                             THEN local_config["projects"] ELSE EmptyMap,
                             remote_config["projects"])
                    ELSE local_config[k]]
            ELSE local_config
        other == ((DOMAIN remote_config \ preserve_keys) \ {"projects"})
                     \ DOMAIN local_config
    IN  [k \in DOMAIN withProjects \cup other |->
            IF k \in other THEN remote_config[k] ELSE withProjects[k]]

merged_config(local_config, remote_config) ==
    LET withProjects ==
            IF "projects" \in DOMAIN remote_config
            THEN [k \in DOMAIN local_config \cup {"projects"} |->
                    IF k = "projects"
                    THEN merge_projects(
                             IF "projects" \in DOMAIN local_config
                             THEN local_config["projects"] ELSE EmptyMap,
                             remote_config["projects"])
                    ELSE local_config[k]]
            ELSE local_config
        other == (DOMAIN remote_config \ preserve_keys) \ {"projects"}
    IN  [k \in DOMAIN withProjects \cup other |->
            IF k \in other THEN remote_config[k] ELSE withProjects[k]]

\* mutant of merge_claude_config: a file that does not parse is read as {}
merge_claude_config_Overwrite(source_file, dest_file) ==
    LET local_config == IF Exists(dest_file) /\ json_load_ok(dest_file[1])
                        THEN json_load(dest_file[1]) ELSE EmptyMap
        remote_config == IF json_load_ok(source_file[1])
                         THEN json_load(source_file[1]) ELSE EmptyMap
    IN  <<json_dump(merged_config(local_config, remote_config))>>

\* merge_claude_config(source_file, dest_file): the new dest_file.  Any
\* exception (a file that does not parse) is caught inside and leaves
\* dest_file as it was.
merge_claude_config(source_file, dest_file) ==
    IF Exists(dest_file) /\ ~json_load_ok(dest_file[1]) THEN dest_file
    ELSE IF ~json_load_ok(source_file[1]) THEN dest_file
    ELSE LET local_config == IF Exists(dest_file) THEN json_load(dest_file[1])
                             ELSE EmptyMap
             remote_config == json_load(source_file[1])
         IN  <<json_dump(merged_config(local_config, remote_config))>>

\* --- inputs
McpKeys == {"x", "y"}
McpMaps == Maps(McpKeys, 1..MaxVal)
ProjectEntries ==
    {m @@ s : m \in {EmptyMap} \cup {("mcpServers" :> v) : v \in McpMaps},
              s \in {EmptyMap, ("allowedTools" :> "p")}}
ProjectPaths == {"/a"}
ProjectMaps == Maps(ProjectPaths, ProjectEntries)
Configs ==
    {u @@ o @@ t @@ p :
        u \in {EmptyMap} \cup {("userID" :> v) : v \in {"u1", "u2"}},
        o \in {EmptyMap, ("oauthAccount" :> "o1")},
        t \in {EmptyMap} \cup {("tip" :> v) : v \in {"s", "t"}},
        p \in {EmptyMap} \cup {("projects" :> v) : v \in ProjectMaps}}
ConfigFiles == {<<json_dump(c)>> : c \in Configs} \cup {<<Malformed>>}

InitConfig ==
    /\ cfgLocal \in ConfigFiles \cup {NoFile}
    /\ cfgRemote \in ConfigFiles
    /\ cfgPre = cfgLocal
    /\ cfgPc = "ready"

MergeConfig ==
    /\ cfgPc = "ready"
    /\ cfgPre' = cfgLocal
    /\ cfgLocal' = merge_claude_config(cfgRemote, cfgLocal)
    /\ cfgPc' = "merged"
    /\ UNCHANGED cfgRemote

\* ========================================================= directory merge
\* a file of a tree: content and modification time (shutil.copy2 copies
\* both)
TreeFiles == [content : {"a", "b"}, mtime : 1..MaxMtime]
RelPaths == {"f1", "f2"}
Trees == Maps(RelPaths, TreeFiles)

\* mutant of merge_directory: update mode copies a remote file that is not
\* older (>= for >)
merge_directory_NotOlder(source_dir, dest_dir, merge_mode) ==
    LET dest == IF Exists(dest_dir) THEN dest_dir[1] ELSE EmptyMap
    IN  <<[rel_path \in DOMAIN dest \cup DOMAIN source_dir |->
            IF rel_path \notin DOMAIN source_dir THEN dest[rel_path]
            ELSE IF merge_mode = "append" \/ rel_path \notin DOMAIN dest
                 THEN source_dir[rel_path]
            ELSE IF merge_mode = "update"
                    /\ source_dir[rel_path].mtime >= dest[rel_path].mtime
                 THEN source_dir[rel_path]
            ELSE dest[rel_path]]>>

\* merge_directory(source_dir, dest_dir, merge_mode): the new dest_dir
\* (created if missing).
merge_directory(source_dir, dest_dir, merge_mode) ==
    LET dest == IF Exists(dest_dir) THEN dest_dir[1] ELSE EmptyMap
    IN  <<[rel_path \in DOMAIN dest \cup DOMAIN source_dir |->
            IF rel_path \notin DOMAIN source_dir THEN dest[rel_path]
            ELSE IF merge_mode = "append" \/ rel_path \notin DOMAIN dest
                 THEN source_dir[rel_path]
            ELSE IF merge_mode = "update"
                    /\ source_dir[rel_path].mtime > dest[rel_path].mtime
                 THEN source_dir[rel_path]
            ELSE dest[rel_path]]>>

InitDir ==
    /\ dirLocal \in {<<t>> : t \in Trees} \cup {NoFile}
    /\ dirRemote \in Trees
    /\ dirMode \in {"append", "update"}
    /\ dirPre = dirLocal
    /\ dirPc = "ready"

MergeDir ==
    /\ dirPc = "ready"
    /\ dirPre' = dirLocal
    /\ dirLocal' = merge_directory(dirRemote, dirLocal, dirMode)
    /\ dirPc' = "merged"
    /\ UNCHANGED <<dirRemote, dirMode>>

\* ================================================== context-document merge
Alphabet == {"a", "b", " "}
Whitespace == {" ", "\n", "\t", "\r"}
Texts(n) == UNION {[1..k -> Alphabet] : k \in 0..n}

RECURSIVE lstrip(_)
lstrip(s) ==
    IF s # <<>> /\ Head(s) \in Whitespace THEN lstrip(Tail(s)) ELSE s

RECURSIVE rstrip(_)
rstrip(s) ==
    IF s # <<>> /\ s[Len(s)] \in Whitespace
    THEN rstrip(SubSeq(s, 1, Len(s) - 1)) ELSE s

\* str.strip()
strip(s) == rstrip(lstrip(s))

\* Python's  sub in s  on strings
Contains(sub, s) ==
    \E i \in 0..(Len(s) - Len(sub)) : SubSeq(s, i + 1, i + Len(sub)) = sub

\* "\n\n# Merged from <name>\n\n"
MergedFrom == <<"#", " ", "M", "e", "r", "g", "e", "d", " ", "f", "r", "o", "m", " ">>
merge_header(name) == <<"\n", "\n">> \o MergedFrom \o name \o <<"\n", "\n">>

\* mutant of merge_claude_md: the containment guard is missing
merge_claude_md_AlwaysAppend(remote_content, name, dest_file, backup) ==
    IF ~Exists(dest_file)
    THEN [local |-> <<remote_content>>, backup |-> backup]
    ELSE LET local_content == dest_file[1]
         IN  [local |-> <<local_content \o merge_header(name)
                            \o remote_content>>,
              backup |-> <<local_content>>]

\* mutant of merge_claude_md: the backup is taken after the write
merge_claude_md_LateBackup(remote_content, name, dest_file, backup) ==
    IF ~Exists(dest_file)
    THEN [local |-> <<remote_content>>, backup |-> backup]
    ELSE LET local_content == dest_file[1]
             merged == local_content \o merge_header(name) \o remote_content
         IN  IF ~Contains(strip(remote_content), local_content)
             THEN [local |-> <<merged>>, backup |-> <<merged>>]
             ELSE [local |-> dest_file, backup |-> backup]

\* claude-sync-extended.py: merge_claude_md(source_file, dest_file); name is
\* source_file.parent.name.  Gives the new dest_file and the new backup.
merge_claude_md(remote_content, name, dest_file, backup) ==
    IF ~Exists(dest_file)
    THEN [local |-> <<remote_content>>, backup |-> backup]
    ELSE LET local_content == dest_file[1]
         IN  IF ~Contains(strip(remote_content), local_content)
             THEN [local |-> <<local_content \o merge_header(name)
                                \o remote_content>>,
                   backup |-> <<local_content>>]
             ELSE [local |-> dest_file, backup |-> backup]

\* mutant of merge_context: the containment guard is missing
merge_context_AlwaysAppend(remote_content, name, local_claude, backup) ==
    IF ~Exists(local_claude)
    THEN [local |-> <<remote_content>>, backup |-> backup]
    ELSE LET local_content == local_claude[1]
         IN  [local |-> <<local_content \o merge_header(name)
                            \o remote_content>>,
              backup |-> <<local_content>>]

\* claude-sync.py: merge_context(remote_file); name is remote_file.stem.
merge_context(remote_content, name, local_claude, backup) ==
    IF ~Exists(local_claude)
    THEN [local |-> <<remote_content>>, backup |-> backup]
    ELSE LET local_content == local_claude[1]
         IN  IF ~Contains(remote_content, local_content)
             THEN [local |-> <<local_content \o merge_header(name)
                                \o remote_content>>,
                   backup |-> <<local_content>>]
             ELSE [local |-> local_claude, backup |-> backup]

\* the name each variant puts in the header for machine directory / file m
ForeignIds == {<<"m", "2">>}
header_name(variant, m) ==
    IF variant = "extended" THEN m
    ELSE <<"C", "L", "A", "U", "D", "E", "-">> \o m

InitMd ==
    /\ mdVariant \in {"extended", "simple"}
    /\ mdLocal \in {<<t>> : t \in Texts(1)} \cup {NoFile}
    /\ mdBackup = NoFile
    /\ mdPre = mdLocal
    /\ mdPreBackup = NoFile
    /\ mdOrig = mdLocal
    /\ mdRemote = <<>>
    /\ mdPrevRemote = NoFile
    /\ mdSrc = <<>>
    /\ mdCount = 0

MergeMd ==
    /\ mdCount < MaxMerges
    /\ \E r \in Texts(MaxLen), m \in ForeignIds :
         LET name == header_name(mdVariant, m)
             res == IF mdVariant = "extended"
                    THEN merge_claude_md(r, name, mdLocal, mdBackup)
                    ELSE merge_context(r, name, mdLocal, mdBackup)
         IN  /\ mdLocal' = res.local
             /\ mdBackup' = res.backup
             /\ mdRemote' = r
             /\ mdSrc' = name
    /\ mdPre' = mdLocal
    /\ mdPreBackup' = mdBackup
    /\ mdPrevRemote' = IF mdCount = 0 THEN NoFile ELSE <<mdRemote>>
    /\ mdCount' = mdCount + 1
    /\ UNCHANGED <<mdVariant, mdOrig>>

\* the three merges above when they are not the subject of a run
IdleConfig ==
    /\ cfgLocal = NoFile
    /\ cfgRemote = <<Malformed>>
    /\ cfgPre = NoFile
    /\ cfgPc = "idle"

IdleDir ==
    /\ dirLocal = NoFile
    /\ dirRemote = EmptyMap
    /\ dirMode = "update"
    /\ dirPre = NoFile
    /\ dirPc = "idle"

IdleMd ==
    /\ mdVariant = "extended"
    /\ mdLocal = NoFile
    /\ mdBackup = NoFile
    /\ mdPre = NoFile
    /\ mdPreBackup = NoFile
    /\ mdOrig = NoFile
    /\ mdRemote = <<>>
    /\ mdPrevRemote = NoFile
    /\ mdSrc = <<>>
    /\ mdCount = MaxMerges

\* ======================================== catalog, staging, restore, sync
\* config["machine_id"] of the machine modelled, as the characters of the
\* directory name
Me == <<"m", "1">>

\* self.sync_items, in dict order
EssentialItems ==
    <<"claude_config", "claude_settings", "context_file", "session_data",
      "todos">>
OptionalItems == <<"shell_snapshots", "slash_commands">>

Range(seq) == {seq[i] : i \in DOMAIN seq}
CatalogItems == Range(EssentialItems) \cup Range(OptionalItems)
\* items with a path under ~ ("CLAUDE.md" is relative to the cwd)
HomeItems == CatalogItems \ {"context_file"}
\* items whose path is a directory
TreeItems == {"session_data", "todos", "shell_snapshots", "slash_commands"}

\* items_to_sync: essential.copy(), updated with optional when level is full
items_to_sync(level) ==
    IF level = "full" THEN EssentialItems \o OptionalItems ELSE EssentialItems

\* the metadata dict written by prepare_sync_data
metadata_of(machine_id, level) ==
    [machine_id |-> machine_id, hostname |-> machine_id, timestamp |-> "now",
     sync_level |-> level, synced_items |-> items_to_sync(level)]

\* mutant of prepare_sync_data: the staging directory is not cleared
prepare_sync_data_NoClear(machine_id, level, live, cwdMd, failing, old) ==
    LET items == items_to_sync(level)
        source(item) == IF item = "context_file" THEN cwdMd ELSE live[item]
        copied == {i \in Range(items) : Exists(source(i)) /\ i \notin failing}
        kept == IF Exists(old) THEN old[1].entries ELSE EmptyMap
    IN  [entries |-> [i \in copied |-> source(i)[1]] @@ kept,
         meta |-> <<json_dump(metadata_of(machine_id, level))>>]

\* prepare_sync_data(): the staging tree [entries, meta].  live are the items
\* under ~, cwdMd is CLAUDE.md in the cwd, failing are the items whose copy
\* raises, old is the staging tree left by the previous call (removed by
\* rmtree before anything is copied).
prepare_sync_data(machine_id, level, live, cwdMd, failing, old) ==
    LET items == items_to_sync(level)
        source(item) == IF item = "context_file" THEN cwdMd ELSE live[item]
        copied == {i \in Range(items) : Exists(source(i)) /\ i \notin failing}
        cleared == EmptyMap
    IN  [entries |-> [i \in copied |-> source(i)[1]] @@ cleared,
         meta |-> <<json_dump(metadata_of(machine_id, level))>>]

\* mutant of restore_item: the exception of an item's merge is not caught
restore_item_Uncaught(st, machine, machine_dir, item_name, raising) ==
    IF st.crashed THEN st
    ELSE IF item_name \notin DOMAIN machine_dir.entries THEN st
    ELSE IF item_name \notin CatalogItems THEN st
    ELSE
      LET source_file == machine_dir.entries[item_name]
          att == [st EXCEPT !.attempted = Append(@, <<machine, item_name>>)]
      IN  IF item_name \in raising
          THEN [att EXCEPT !.errors = Append(@, <<machine, item_name>>),
                           !.crashed = TRUE]
          ELSE IF item_name = "context_file"
          THEN LET r == merge_claude_md(source_file, machine, st.md, st.bak)
               IN  [att EXCEPT !.md = r.local, !.bak = r.backup]
          ELSE IF item_name = "claude_config"
          THEN [att EXCEPT !.home[item_name] =
                               merge_claude_config(<<source_file>>, @)]
          ELSE IF item_name = "session_data"
          THEN [att EXCEPT !.home[item_name] =
                               merge_directory(source_file, @, "append")]
          ELSE IF item_name \notin TreeItems
          THEN [att EXCEPT
                   !.backups = IF Exists(st.home[item_name])
                               THEN (<<item_name>> :> st.home[item_name][1]) @@ @
                               ELSE @,
                   !.home[item_name] = <<source_file>>]
          ELSE [att EXCEPT !.home[item_name] =
                               merge_directory(source_file, @, "update")]

\* mutant of restore_item: the .bak copy is taken after the overwrite
restore_item_LateBackup(st, machine, machine_dir, item_name, raising) ==
    IF item_name \notin DOMAIN machine_dir.entries THEN st
    ELSE IF item_name \notin CatalogItems THEN st
    ELSE
      LET source_file == machine_dir.entries[item_name]
          att == [st EXCEPT !.attempted = Append(@, <<machine, item_name>>)]
      IN  IF item_name \in raising
          THEN [att EXCEPT !.errors = Append(@, <<machine, item_name>>)]
          ELSE IF item_name = "context_file"
          THEN LET r == merge_claude_md(source_file, machine, st.md, st.bak)
               IN  [att EXCEPT !.md = r.local, !.bak = r.backup]
          ELSE IF item_name = "claude_config"
          THEN [att EXCEPT !.home[item_name] =
                               merge_claude_config(<<source_file>>, @)]
          ELSE IF item_name = "session_data"
          THEN [att EXCEPT !.home[item_name] =
                               merge_directory(source_file, @, "append")]
          ELSE IF item_name \notin TreeItems
          THEN [att EXCEPT
                   !.backups = IF Exists(st.home[item_name])
                               THEN (<<item_name>> :> source_file) @@ @
                               ELSE @,
                   !.home[item_name] = <<source_file>>]
          ELSE [att EXCEPT !.home[item_name] =
                               merge_directory(source_file, @, "update")]

\* one item of a foreign machine directory (the body of the inner loop of
\* restore_sync_data).  st is [home, md, bak, backups, attempted, errors,
\* crashed]; raising are the items whose merge raises.
restore_item(st, machine, machine_dir, item_name, raising) ==
    IF item_name \notin DOMAIN machine_dir.entries THEN st
    ELSE IF item_name \notin CatalogItems THEN st
    ELSE
      LET source_file == machine_dir.entries[item_name]
          att == [st EXCEPT !.attempted = Append(@, <<machine, item_name>>)]
      IN  IF item_name \in raising
          THEN [att EXCEPT !.errors = Append(@, <<machine, item_name>>)]
          ELSE IF item_name = "context_file"
          THEN LET r == merge_claude_md(source_file, machine, st.md, st.bak)
               IN  [att EXCEPT !.md = r.local, !.bak = r.backup]
          ELSE IF item_name = "claude_config"
          THEN [att EXCEPT !.home[item_name] =
                               merge_claude_config(<<source_file>>, @)]
          ELSE IF item_name = "session_data"
          THEN [att EXCEPT !.home[item_name] =
                               merge_directory(source_file, @, "append")]
          ELSE IF item_name \notin TreeItems
          THEN [att EXCEPT
                   !.backups = IF Exists(st.home[item_name])
                               THEN (<<item_name>> :> st.home[item_name][1]) @@ @
                               ELSE @,
                   !.home[item_name] = <<source_file>>]
          ELSE [att EXCEPT !.home[item_name] =
                               merge_directory(source_file, @, "update")]

RECURSIVE restore_items(_, _, _, _, _)
restore_items(st, machine, machine_dir, names, raising) ==
    IF names = <<>> THEN st
    ELSE restore_items(
             restore_item(st, machine, machine_dir, Head(names), raising),
             machine, machine_dir, Tail(names), raising)

\* mutant of restore_machine: a missing metadata.json raises
restore_machine_NeedsMetadata(st, machine, machine_dir, raising) ==
    IF ~Exists(machine_dir.meta) THEN [st EXCEPT !.crashed = TRUE]
    ELSE IF ~json_load_ok(machine_dir.meta[1]) THEN [st EXCEPT !.crashed = TRUE]
    ELSE LET metadata == json_load(machine_dir.meta[1])
         IN  IF ~({"hostname", "timestamp"} \subseteq DOMAIN metadata)
             THEN [st EXCEPT !.crashed = TRUE]
             ELSE restore_items(st, machine, machine_dir,
                      IF "synced_items" \in DOMAIN metadata
                      THEN metadata["synced_items"] ELSE <<>>,
                      raising)

\* one foreign machine directory (the body of the outer loop).  A metadata
\* file that does not parse, or lacks hostname or timestamp, raises out of
\* restore_sync_data.
restore_machine(st, machine, machine_dir, raising) ==
    IF ~Exists(machine_dir.meta) THEN st
    ELSE IF ~json_load_ok(machine_dir.meta[1]) THEN [st EXCEPT !.crashed = TRUE]
    ELSE LET metadata == json_load(machine_dir.meta[1])
         IN  IF ~({"hostname", "timestamp"} \subseteq DOMAIN metadata)
             THEN [st EXCEPT !.crashed = TRUE]
             ELSE restore_items(st, machine, machine_dir,
                      IF "synced_items" \in DOMAIN metadata
                      THEN metadata["synced_items"] ELSE <<>>,
                      raising)

\* restore_sync_data(repo_path): dirs are the machine directories of the
\* working copy, order the order iterdir lists them in.
RECURSIVE restore_sync_data(_, _, _, _, _)
restore_sync_data(st, dirs, order, machine_id, raising) ==
    IF order = <<>> \/ st.crashed THEN st
    ELSE restore_sync_data(
             IF Head(order) = machine_id THEN st
             ELSE restore_machine(st, Head(order), dirs[Head(order)], raising),
             dirs, Tail(order), machine_id, raising)

Orders(S) == {o \in [1..Cardinality(S) -> S] : Range(o) = S}

\* repo_path.iterdir(): the machine directories that exist, in the order
\* the file system lists them
iterdir(dirs, order) == SelectSeq(order, LAMBDA m : m \in DOMAIN dirs)

\* git pull --rebase / git clone: the foreign machine directories become
\* those of the remote repository; this machine's directory is the one it
\* last wrote.
fetch(dirs, origin, machine_id) ==
    [m \in DOMAIN origin \cup (DOMAIN dirs \cap {machine_id}) |->
        IF m = machine_id THEN dirs[m] ELSE origin[m]]

\* --- sync_git(operation), in its three parts.  pc is the part the call is
\* in; the log of the call is [op, result, git, attempted, errors, staged]:
\* git lists the git commands run, a command that exits non-zero as
\* "<command> failed".

\* mutant of sync_git_clone: a failed clone does not return
sync_git_clone_Continue(operation, w, cloneOk, origin) ==
    LET log0 == [op |-> operation, result |-> "running", git |-> <<>>,
                 attempted |-> <<>>, errors |-> <<>>, staged |-> FALSE]
        next == IF operation \in {"pull", "both"} THEN "pull"
                ELSE IF operation = "push" THEN "push" ELSE "idle"
        done(log) == IF next = "idle" THEN [log EXCEPT !.result = "ok"]
                     ELSE log
    IN  IF Exists(w) THEN [wc |-> w, log |-> done(log0), pc |-> next]
        ELSE IF ~cloneOk
        THEN [wc |-> <<[dirs |-> EmptyMap, md |-> NoFile, bak |-> NoFile]>>,
              log |-> done([log0 EXCEPT !.git = Append(@, "clone failed")]),
              pc |-> next]
        ELSE [wc |-> <<[dirs |-> fetch(EmptyMap, origin, Me),
                        md |-> NoFile, bak |-> NoFile]>>,
              log |-> done([log0 EXCEPT !.git = Append(@, "clone")]),
              pc |-> next]

\* lines 280-294: clone if there is no working copy, then chdir into it.
\* An operation that is neither pull, push nor both runs neither half
\* (main passes the action name: "sync", "pull" or "push").
sync_git_clone(operation, w, cloneOk, origin) ==
    LET log0 == [op |-> operation, result |-> "running", git |-> <<>>,
                 attempted |-> <<>>, errors |-> <<>>, staged |-> FALSE]
        next == IF operation \in {"pull", "both"} THEN "pull"
                ELSE IF operation = "push" THEN "push" ELSE "idle"
        done(log) == IF next = "idle" THEN [log EXCEPT !.result = "ok"]
                     ELSE log
    IN  IF Exists(w) THEN [wc |-> w, log |-> done(log0), pc |-> next]
        ELSE IF ~cloneOk
        THEN [wc |-> w,
              log |-> [log0 EXCEPT !.git = Append(@, "clone failed"),
                                   !.result = "failed"],
              pc |-> "idle"]
        ELSE [wc |-> <<[dirs |-> fetch(EmptyMap, origin, Me),
                        md |-> NoFile, bak |-> NoFile]>>,
              log |-> done([log0 EXCEPT !.git = Append(@, "clone")]),
              pc |-> next]

\* lines 297-300 (and the except / return of 320-326 they can reach): git
\* pull --rebase with check=True, then restore_sync_data.  s is [home, wc,
\* backups, log].  An exception of restore_sync_data is not a
\* CalledProcessError: it leaves sync_git through the finally clause only
\* (result "raised").
sync_git_pull(s, pullOk, origin, order, raising) ==
    LET log1 == [s.log EXCEPT !.git = Append(@, "pull")]
        w1 == [s.wc[1] EXCEPT !.dirs = fetch(@, origin, Me)]
        st0 == [home |-> s.home, md |-> w1.md, bak |-> w1.bak,
                backups |-> s.backups, attempted |-> <<>>, errors |-> <<>>,
                crashed |-> FALSE]
        st1 == restore_sync_data(st0, w1.dirs, iterdir(w1.dirs, order), Me,
                                 raising)
        w2 == [w1 EXCEPT !.md = st1.md, !.bak = st1.bak]
        log2 == [log1 EXCEPT !.attempted = st1.attempted,
                             !.errors = st1.errors]
    IN  IF ~pullOk
        THEN [home |-> s.home, wc |-> s.wc, backups |-> s.backups,
              log |-> [s.log EXCEPT !.git = Append(@, "pull failed"),
                                    !.result = "failed"],
              pc |-> "idle"]
        ELSE IF st1.crashed
        THEN [home |-> st1.home, wc |-> <<w2>>, backups |-> st1.backups,
              log |-> [log2 EXCEPT !.result = "raised"], pc |-> "idle"]
        ELSE IF s.log.op = "both"
        THEN [home |-> st1.home, wc |-> <<w2>>, backups |-> st1.backups,
              log |-> log2, pc |-> "push"]
        ELSE [home |-> st1.home, wc |-> <<w2>>, backups |-> st1.backups,
              log |-> [log2 EXCEPT !.result = "ok"], pc |-> "idle"]

\* mutant of sync_git_push: the staging tree is copied over this machine's
\* directory without removing the directory first
sync_git_push_NoRmtree(s, failing, addOk, commitOk, pushOk) ==
    LET staged == prepare_sync_data(Me, s.level, s.home, s.wc[1].md, failing,
                                    s.staging)
        machine_dir == IF Me \in DOMAIN s.wc[1].dirs
                       THEN [entries |-> staged.entries
                                             @@ s.wc[1].dirs[Me].entries,
                             meta |-> staged.meta]
                       ELSE staged
        w1 == [s.wc[1] EXCEPT !.dirs = (Me :> machine_dir) @@ @]
        log0 == [s.log EXCEPT !.staged = TRUE]
        logAdd == [log0 EXCEPT !.git = Append(@, "add")]
        logCommit == [logAdd EXCEPT
                         !.git = Append(@, IF commitOk THEN "commit"
                                           ELSE "commit failed")]
    IN  IF ~addOk
        THEN [wc |-> <<w1>>, staging |-> <<staged>>,
              log |-> [log0 EXCEPT !.git = Append(@, "add failed"),
                                   !.result = "failed"]]
        ELSE IF ~pushOk
        THEN [wc |-> <<w1>>, staging |-> <<staged>>,
              log |-> [logCommit EXCEPT !.git = Append(@, "push failed"),
                                        !.result = "failed"]]
        ELSE [wc |-> <<w1>>, staging |-> <<staged>>,
              log |-> [logCommit EXCEPT !.git = Append(@, "push"),
                                        !.result = "ok"]]

\* mutant of sync_git_push: git commit is run with check=True
sync_git_push_CheckedCommit(s, failing, addOk, commitOk, pushOk) ==
    LET staged == prepare_sync_data(Me, s.level, s.home, s.wc[1].md, failing,
                                    s.staging)
        w1 == [s.wc[1] EXCEPT !.dirs = (Me :> staged) @@ @]
        log0 == [s.log EXCEPT !.staged = TRUE]
        logAdd == [log0 EXCEPT !.git = Append(@, "add")]
        logCommit == [logAdd EXCEPT
                         !.git = Append(@, IF commitOk THEN "commit"
                                           ELSE "commit failed")]
    IN  IF ~addOk
        THEN [wc |-> <<w1>>, staging |-> <<staged>>,
              log |-> [log0 EXCEPT !.git = Append(@, "add failed"),
                                   !.result = "failed"]]
        ELSE IF ~commitOk
        THEN [wc |-> <<w1>>, staging |-> <<staged>>,
              log |-> [logCommit EXCEPT !.result = "failed"]]
        ELSE IF ~pushOk
        THEN [wc |-> <<w1>>, staging |-> <<staged>>,
              log |-> [logCommit EXCEPT !.git = Append(@, "push failed"),
                                        !.result = "failed"]]
        ELSE [wc |-> <<w1>>, staging |-> <<staged>>,
              log |-> [logCommit EXCEPT !.git = Append(@, "push"),
                                        !.result = "ok"]]

\* lines 302-318 (and 320-326): prepare_sync_data, replace this machine's
\* directory in the working copy, git add (check=True), git commit
\* (check=False), git push (check=True).  s is [level, home, wc, staging,
\* log].
sync_git_push(s, failing, addOk, commitOk, pushOk) ==
    LET staged == prepare_sync_data(Me, s.level, s.home, s.wc[1].md, failing,
                                    s.staging)
        w1 == [s.wc[1] EXCEPT !.dirs = (Me :> staged) @@ @]
        log0 == [s.log EXCEPT !.staged = TRUE]
        logAdd == [log0 EXCEPT !.git = Append(@, "add")]
        logCommit == [logAdd EXCEPT
                         !.git = Append(@, IF commitOk THEN "commit"
                                           ELSE "commit failed")]
    IN  IF ~addOk
        THEN [wc |-> <<w1>>, staging |-> <<staged>>,
              log |-> [log0 EXCEPT !.git = Append(@, "add failed"),
                                   !.result = "failed"]]
        ELSE IF ~pushOk
        THEN [wc |-> <<w1>>, staging |-> <<staged>>,
              log |-> [logCommit EXCEPT !.git = Append(@, "push failed"),
                                        !.result = "failed"]]
        ELSE [wc |-> <<w1>>, staging |-> <<staged>>,
              log |-> [logCommit EXCEPT !.git = Append(@, "push"),
                                        !.result = "ok"]]

\* --- inputs
SysConfig(v) ==
    IF v = "a" THEN ("userID" :> "u1") @@ ("tip" :> "s")
    ELSE ("userID" :> "u2") @@ ("tip" :> "t")

\* the live items of a machine: those of present exist, with content v and
\* modification time t
LiveItems(present, v, t) ==
    [i \in HomeItems |->
        IF i \notin present THEN NoFile
        ELSE IF i = "claude_config" THEN <<json_dump(SysConfig(v))>>
        ELSE IF i \in TreeItems THEN <<("f1" :> [content |-> v, mtime |-> t])>>
        ELSE <<[content |-> v, mtime |-> t]>>]

UsedItems == HomeItems \ {"slash_commands"}
\* a machine with nothing, one with every item used, and one whose
\* ~/.claude.json does not parse
LocalHomes ==
    {LiveItems(P, "a", 1) : P \in {{}, UsedItems}}
    \cup {[LiveItems({"claude_config", "todos"}, "a", 1)
              EXCEPT !["claude_config"] = <<Malformed>>]}

\* what another machine running the same program has pushed at time t (its
\* context document is then t characters long), for the earliest and the
\* latest time
ForeignId == <<"m", "2">>
ForeignText(t) == [i \in 1..t |-> "b"]
ForeignDirs ==
    {prepare_sync_data(ForeignId, "full", LiveItems(UsedItems, "b", t),
                       <<ForeignText(t)>>, {}, NoFile) : t \in {1, MaxMtime}}

\* a directory pushed by a later version of the program, after its
\* ~/.claude.json was damaged: the metadata lists an item this catalog does
\* not have (and stages it), and lists claude_settings without staging it
NewerDir ==
    [entries |-> ("claude_config" :> Malformed)
                 @@ ("future_item" :> [content |-> "b", mtime |-> 1])
                 @@ ("todos" :> ("f2" :> [content |-> "b", mtime |-> 1])),
     meta |-> <<json_dump(
                  [metadata_of(ForeignId, "essential") EXCEPT
                      !.synced_items = <<"claude_config", "future_item",
                                         "claude_settings", "todos">>])>>]

\* a third machine's directory: without metadata.json, with one that does
\* not parse, with one that lacks the timestamp, or as the program writes it
ThirdId == <<"m", "3">>
ThirdEntries == ("todos" :> ("f2" :> [content |-> "c", mtime |-> 1]))
ThirdDirs ==
    {[entries |-> ThirdEntries, meta |-> NoFile],
     [entries |-> ThirdEntries, meta |-> <<Malformed>>],
     [entries |-> ThirdEntries,
      meta |-> <<json_dump([machine_id |-> ThirdId, hostname |-> ThirdId,
                            synced_items |-> <<"todos">>])>>],
     [entries |-> ThirdEntries,
      meta |-> <<json_dump(metadata_of(ThirdId, "essential"))>>]}

\* the machine directories of the remote repository
Origins ==
    {EmptyMap}
    \cup {(ForeignId :> d) : d \in ForeignDirs \cup {NewerDir}}
    \cup {(ForeignId :> CHOOSE d \in ForeignDirs :
                            d.entries["context_file"] = ForeignText(1))
              @@ (ThirdId :> e) : e \in ThirdDirs}

\* the working copy a clone gives: of an empty repository, or of one
\* another machine has pushed to
CloneOrigins ==
    {EmptyMap,
     (ForeignId :> CHOOSE d \in ForeignDirs :
                       d.entries["context_file"] = ForeignText(1))}

\* the orders iterdir lists the machine directories in
IterOrders ==
    {<<Me, ForeignId, ThirdId>>, <<ThirdId, Me, ForeignId>>}

\* the items whose merge raises (Raising) and whose copy into staging raises
\* (Failing)
Raising == {{}, {"claude_settings"}}
Failing == {{}, {"todos"}}

\* the environment puts at most one fault into a sync_git call: a git
\* command that exits non-zero, or an item whose copy or merge raises
Faults(conditions) == Cardinality({i \in DOMAIN conditions : conditions[i]})

NoLog ==
    [op |-> "none", result |-> "none", git |-> <<>>, attempted |-> <<>>,
     errors |-> <<>>, staged |-> FALSE]

InitExtended ==
    /\ sync_level \in {"essential", "full"}
    /\ home \in LocalHomes
    /\ origMd = <<<<"a">>>>
    /\ wc = NoFile
    /\ staging = NoFile
    /\ backups = EmptyMap
    /\ preHome = home
    /\ preBackups = backups
    /\ opLog = NoLog
    /\ opCount = 0
    /\ pc = "idle"
    /\ prevStaging = NoFile
    /\ stagedLevel = "none"

\* main(): pull, push or sync calls sync(args.action), which calls
\* sync_git(operation); both is the default of sync() and sync_git()
Begin ==
    /\ pc = "idle"
    /\ opCount < MaxOps
    /\ \E operation \in {"pull", "push", "both", "sync"},
          cloneOk \in IF Exists(wc) THEN {TRUE} ELSE BOOLEAN,
          origin \in IF Exists(wc) THEN {EmptyMap} ELSE CloneOrigins :
         LET r == sync_git_clone(operation, wc, cloneOk, origin)
         IN  /\ wc' = r.wc
             /\ opLog' = r.log
             /\ pc' = r.pc
    /\ preHome' = home
    /\ preBackups' = backups
    /\ opCount' = opCount + 1
    /\ UNCHANGED <<sync_level, home, origMd, staging, backups, prevStaging,
                   stagedLevel>>
    /\ UNCHANGED <<cfgVars, dirVars, mdVars, simpleVars, roundVars>>

PullHalf ==
    /\ pc = "pull"
    /\ \E pullOk \in BOOLEAN, origin \in Origins, raising \in Raising,
          order \in IterOrders :
         /\ Faults(<<~pullOk, raising # {}>>) <= 1
         /\ LET r == sync_git_pull(
                         [home |-> home, wc |-> wc, backups |-> backups,
                          log |-> opLog],
                         pullOk, origin, order, raising)
            IN  /\ home' = r.home
                /\ wc' = r.wc
                /\ backups' = r.backups
                /\ opLog' = r.log
                /\ pc' = r.pc
    /\ UNCHANGED <<sync_level, origMd, staging, preHome, preBackups, opCount,
                   prevStaging, stagedLevel>>
    /\ UNCHANGED <<cfgVars, dirVars, mdVars, simpleVars, roundVars>>

PushHalf ==
    /\ pc = "push"
    /\ \E failing \in Failing, addOk \in BOOLEAN, commitOk \in BOOLEAN,
          pushOk \in BOOLEAN :
         /\ Faults(<<opLog.errors # <<>>, failing # {}, ~addOk, ~commitOk,
                     ~pushOk>>) <= 1
         /\ LET r == sync_git_push(
                         [level |-> sync_level, home |-> home, wc |-> wc,
                          staging |-> staging, log |-> opLog],
                         failing, addOk, commitOk, pushOk)
            IN  /\ wc' = r.wc
                /\ staging' = r.staging
                /\ opLog' = r.log
    /\ pc' = "idle"
    /\ prevStaging' = staging
    /\ stagedLevel' = sync_level
    /\ UNCHANGED <<sync_level, home, origMd, backups, preHome, preBackups,
                   opCount>>
    /\ UNCHANGED <<cfgVars, dirVars, mdVars, simpleVars, roundVars>>

\* main(): setup --level (taken while a sync_git call is still to come)
Setup ==
    /\ pc = "idle"
    /\ opCount < MaxOps
    /\ \E level \in {"essential", "full"} :
         /\ level # sync_level
         /\ sync_level' = level
    /\ UNCHANGED <<home, origMd, wc, staging, backups, preHome, preBackups,
                   opLog, opCount, pc, prevStaging, stagedLevel>>
    /\ UNCHANGED <<cfgVars, dirVars, mdVars, simpleVars, roundVars>>

\* ================================================ claude-sync.py: sync_git
\* the stems of the *.md files at the root of the working copy: CLAUDE.md
\* (Path.cwd() / "CLAUDE.md" after the chdir), this machine's
\* CLAUDE-<machine_id>.md and another machine's
LocalStem == <<"C", "L", "A", "U", "D", "E">>
OwnStem == header_name("simple", Me)
ForeignStem == header_name("simple", ForeignId)

\* git pull --rebase / git clone: the other machines' files become those of
\* the remote repository; the files this machine wrote stay
simple_fetch(md, origin) ==
    [f \in DOMAIN origin \cup (DOMAIN md \cap {LocalStem, OwnStem}) |->
        IF f \in DOMAIN md \cap {LocalStem, OwnStem} THEN md[f]
        ELSE origin[f]]

\* repo_path.glob("*.md") without README.md and LICENSE.md: the files that
\* exist when the loop starts, in the order the file system lists them
glob_md(md, order) == SelectSeq(order, LAMBDA f : f \in DOMAIN md)

\* lines 87-89: merge_context for each file of the glob.  st is [md, bak,
\* merged]: CLAUDE.md and CLAUDE.md.bak in the cwd, and the stems passed to
\* merge_context so far.
RECURSIVE merge_contexts(_, _, _)
merge_contexts(st, files, names) ==
    IF names = <<>> THEN st
    ELSE LET context_file == Head(names)
             remote_content == IF context_file = LocalStem THEN st.md[1]
                               ELSE files[context_file]
             r == merge_context(remote_content, context_file, st.md, st.bak)
         IN  merge_contexts(
                 [md |-> r.local, bak |-> r.backup,
                  merged |-> Append(st.merged, context_file)],
                 files, Tail(names))

\* lines 66-78
simple_sync_git_clone(operation, w, cloneOk, origin) ==
    LET log0 == [op |-> operation, result |-> "running", git |-> <<>>,
                 merged |-> <<>>, staged |-> FALSE]
        next == IF operation \in {"pull", "both"} THEN "pull" ELSE "push"
    IN  IF Exists(w) THEN [repo |-> w, log |-> log0, pc |-> next]
        ELSE IF ~cloneOk
        THEN [repo |-> w,
              log |-> [log0 EXCEPT !.git = Append(@, "clone failed"),
                                   !.result = "failed"],
              pc |-> "idle"]
        ELSE [repo |-> <<[md |-> simple_fetch(EmptyMap, origin),
                          bak |-> NoFile]>>,
              log |-> [log0 EXCEPT !.git = Append(@, "clone")],
              pc |-> next]

\* lines 81-91: run_git_command reports a failed pull as (False, stderr);
\* the else branch prints and the call goes on.  s is [repo, log].
simple_sync_git_pull(s, pullOk, origin, order) ==
    LET files == simple_fetch(s.repo[1].md, origin)
        st0 == [md |-> IF LocalStem \in DOMAIN files
                       THEN <<files[LocalStem]>> ELSE NoFile,
                bak |-> s.repo[1].bak, merged |-> <<>>]
        st1 == merge_contexts(st0, files, glob_md(files, order))
        repo1 == [md |-> IF Exists(st1.md)
                         THEN (LocalStem :> st1.md[1]) @@ files ELSE files,
                  bak |-> st1.bak]
        log1 == IF pullOk
                THEN [s.log EXCEPT !.git = Append(@, "pull"),
                                   !.merged = st1.merged]
                ELSE [s.log EXCEPT !.git = Append(@, "pull failed")]
        repo2 == IF pullOk THEN <<repo1>> ELSE s.repo
    IN  IF s.log.op = "both"
        THEN [repo |-> repo2, log |-> log1, pc |-> "push"]
        ELSE [repo |-> repo2, log |-> [log1 EXCEPT !.result = "ok"],
              pc |-> "idle"]

\* mutant of simple_sync_git_push: a failed commit returns False
simple_sync_git_push_CheckedCommit(s, addOk, commitOk, pushOk) ==
    LET claude_md == s.orig
        repo1 == [s.repo[1] EXCEPT !.md = (OwnStem :> claude_md[1]) @@ @]
        logCommit == [s.log EXCEPT
                         !.staged = TRUE,
                         !.git = @ \o <<IF addOk THEN "add" ELSE "add failed",
                                        IF commitOk THEN "commit"
                                        ELSE "commit failed">>]
    IN  IF ~Exists(claude_md)
        THEN [repo |-> s.repo, log |-> [s.log EXCEPT !.result = "ok"]]
        ELSE IF ~commitOk
        THEN [repo |-> <<repo1>>,
              log |-> [logCommit EXCEPT !.result = "failed"]]
        ELSE IF ~pushOk
        THEN [repo |-> <<repo1>>,
              log |-> [logCommit EXCEPT !.git = Append(@, "push failed"),
                                        !.result = "failed"]]
        ELSE [repo |-> <<repo1>>,
              log |-> [logCommit EXCEPT !.git = Append(@, "push"),
                                        !.result = "ok"]]

\* lines 93-117: write CLAUDE-<machine_id>.md from CLAUDE.md of the
\* original directory, then add and commit (results ignored) and push.
\* s is [orig, repo, log].
simple_sync_git_push(s, addOk, commitOk, pushOk) ==
    LET claude_md == s.orig
        repo1 == [s.repo[1] EXCEPT !.md = (OwnStem :> claude_md[1]) @@ @]
        logCommit == [s.log EXCEPT
                         !.staged = TRUE,
                         !.git = @ \o <<IF addOk THEN "add" ELSE "add failed",
                                        IF commitOk THEN "commit"
                                        ELSE "commit failed">>]
    IN  IF ~Exists(claude_md)
        THEN [repo |-> s.repo, log |-> [s.log EXCEPT !.result = "ok"]]
        ELSE IF ~pushOk
        THEN [repo |-> <<repo1>>,
              log |-> [logCommit EXCEPT !.git = Append(@, "push failed"),
                                        !.result = "failed"]]
        ELSE [repo |-> <<repo1>>,
              log |-> [logCommit EXCEPT !.git = Append(@, "push"),
                                        !.result = "ok"]]

\* --- inputs
\* the *.md files of the remote repository: another machine's context, and
\* the CLAUDE.md that machine's own pulls left in its working copy
SimpleOrigins ==
    {EmptyMap}
    \cup {(ForeignStem :> ForeignText(t)) : t \in {1, MaxMtime}}
    \cup {(ForeignStem :> ForeignText(1)) @@ (LocalStem :> ForeignText(1))}

NoSimpleLog ==
    [op |-> "none", result |-> "none", git |-> <<>>, merged |-> <<>>,
     staged |-> FALSE]

InitSimple ==
    /\ sOrigMd \in {NoFile, <<<<"a">>>>}
    /\ sRepo = NoFile
    /\ sLog = NoSimpleLog
    /\ sCount = 0
    /\ sPc = "idle"

\* main(): sync, pull or push calls sync("both" / "pull" / "push")
SimpleBegin ==
    /\ sPc = "idle"
    /\ sCount < MaxOps
    /\ \E operation \in {"pull", "push", "both"},
          cloneOk \in IF Exists(sRepo) THEN {TRUE} ELSE BOOLEAN,
          origin \in IF Exists(sRepo) THEN {EmptyMap} ELSE SimpleOrigins :
         LET r == simple_sync_git_clone(operation, sRepo, cloneOk, origin)
         IN  /\ sRepo' = r.repo
             /\ sLog' = r.log
             /\ sPc' = r.pc
    /\ sCount' = sCount + 1
    /\ UNCHANGED sOrigMd
    /\ UNCHANGED <<cfgVars, dirVars, mdVars, sysVars, roundVars>>

SimplePull ==
    /\ sPc = "pull"
    /\ \E pullOk \in BOOLEAN, origin \in SimpleOrigins,
          order \in Orders({LocalStem, OwnStem, ForeignStem}) :
         LET r == simple_sync_git_pull([repo |-> sRepo, log |-> sLog],
                                       pullOk, origin, order)
         IN  /\ sRepo' = r.repo
             /\ sLog' = r.log
             /\ sPc' = r.pc
    /\ UNCHANGED <<sOrigMd, sCount>>
    /\ UNCHANGED <<cfgVars, dirVars, mdVars, sysVars, roundVars>>

SimplePush ==
    /\ sPc = "push"
    /\ \E addOk \in BOOLEAN, commitOk \in BOOLEAN, pushOk \in BOOLEAN :
         LET r == simple_sync_git_push(
                      [orig |-> sOrigMd, repo |-> sRepo, log |-> sLog],
                      addOk, commitOk, pushOk)
         IN  /\ sRepo' = r.repo
             /\ sLog' = r.log
    /\ sPc' = "idle"
    /\ UNCHANGED <<sOrigMd, sCount>>
    /\ UNCHANGED <<cfgVars, dirVars, mdVars, sysVars, roundVars>>

\* each tool when the other one is the subject of a run
IdleSys ==
    /\ sync_level = "essential"
    /\ home = LiveItems({}, "a", 1)
    /\ origMd = NoFile
    /\ wc = NoFile
    /\ staging = NoFile
    /\ backups = EmptyMap
    /\ preHome = home
    /\ preBackups = backups
    /\ opLog = NoLog
    /\ opCount = MaxOps
    /\ pc = "off"
    /\ prevStaging = NoFile
    /\ stagedLevel = "none"

IdleSimple ==
    /\ sOrigMd = NoFile
    /\ sRepo = NoFile
    /\ sLog = NoSimpleLog
    /\ sCount = MaxOps
    /\ sPc = "off"

\* ===================================== two machines syncing in turn
\* Both machines run the same tool and call sync_git("both") in turn; nobody
\* edits a file in between.  A tree is [md, bak, snaps]: CLAUDE.md and
\* CLAUDE.md.bak at the root, and what the push halves write (machine
\* directories by machine id for claude-sync-extended.py, the texts of the
\* CLAUDE-<id>.md files by stem for claude-sync.py).  git add . tracks all
\* three.
Machines == {Me, ForeignId}

other(machine_id) == IF machine_id = Me THEN ForeignId ELSE Me

EmptyTree == [md |-> NoFile, bak |-> NoFile, snaps |-> EmptyMap]

\* git pull --rebase in a working copy whose tracked files are committed
\* (every sync commits what it wrote): refused when a file that is not
\* tracked would be overwritten by one the repository has, otherwise the
\* working copy becomes the repository's tree and keeps its untracked files
git_pull(tree, head, remote) ==
    LET untracked(f) == Exists(tree[f]) /\ ~Exists(head[f])
        ok == \A f \in {"md", "bak"} : ~(untracked(f) /\ Exists(remote[f]))
    IN  [ok |-> ok,
         wc |-> IF ok
                THEN [md |-> IF Exists(remote.md) THEN remote.md ELSE tree.md,
                      bak |-> IF Exists(remote.bak) THEN remote.bak
                              ELSE tree.bak,
                      snaps |-> remote.snaps]
                ELSE tree]

\* claude-sync-extended.py, lines 63-78, at the time now: prepare_sync_data
\* with "timestamp": datetime.datetime.now().isoformat()
prepare_sync_data_at(machine_id, level, live, cwdMd, now) ==
    [prepare_sync_data(machine_id, level, live, cwdMd, {}, NoFile)
        EXCEPT !.meta = <<json_dump([metadata_of(machine_id, level)
                                        EXCEPT !.timestamp = now])>>]

\* claude-sync-extended.py, lines 296-326: a refused pull leaves through
\* the except clause; otherwise restore_sync_data over the machine
\* directories pulled, prepare_sync_data, the replacement of the machine's
\* directory, and git add . / commit / push
sync_git_both(machine_id, doc, remote, order, now) ==
    LET p == git_pull(doc.wc, doc.head, remote)
        st0 == [home |-> LiveItems({}, "a", 1), md |-> p.wc.md,
                bak |-> p.wc.bak, backups |-> EmptyMap, attempted |-> <<>>,
                errors |-> <<>>, crashed |-> FALSE]
        st1 == restore_sync_data(st0, p.wc.snaps, iterdir(p.wc.snaps, order),
                                 machine_id, {})
        staged == prepare_sync_data_at(machine_id, "essential", st1.home,
                                       st1.md, now)
        w2 == [md |-> st1.md, bak |-> st1.bak,
               snaps |-> (machine_id :> staged) @@ p.wc.snaps]
    IN  IF ~p.ok THEN [doc |-> doc, repo |-> remote]
        ELSE [doc |-> [doc EXCEPT !.wc = w2, !.head = w2], repo |-> w2]

\* claude-sync.py, lines 80-117: after a pull that succeeds, merge_context
\* over the *.md files of the working copy; then, when CLAUDE.md exists in
\* the original directory, CLAUDE-<machine_id>.md written from it and git
\* add . / commit / push (the push is rejected when the pull was refused)
simple_sync_git_both(machine_id, doc, remote, order) ==
    LET p == git_pull(doc.wc, doc.head, remote)
        files == IF Exists(p.wc.md) THEN (LocalStem :> p.wc.md[1]) @@ p.wc.snaps
                 ELSE p.wc.snaps
        st0 == [md |-> p.wc.md, bak |-> p.wc.bak, merged |-> <<>>]
        st1 == IF p.ok THEN merge_contexts(st0, files, glob_md(files, order))
               ELSE st0
        dest == header_name("simple", machine_id)
        w1 == [md |-> st1.md, bak |-> st1.bak, snaps |-> p.wc.snaps]
        w2 == [w1 EXCEPT !.snaps = (dest :> doc.orig[1]) @@ @]
    IN  IF Exists(doc.orig)
        THEN [doc |-> [doc EXCEPT !.wc = w2, !.head = w2],
              repo |-> IF p.ok THEN w2 ELSE remote]
        ELSE [doc |-> [doc EXCEPT !.wc = w1,
                                  !.head = IF p.ok THEN remote ELSE @],
              repo |-> remote]

\* --- inputs
\* the context documents the machines start with
Documents == Texts(MaxLen) \ {<<>>}

\* Both machines have cloned the repository, which holds no context yet.
\* claude-sync.py reads a machine's document from the directory it is
\* invoked from; for claude-sync-extended.py the document is either there
\* ("cwd") or where the tool looks for it, in the working copy ("repo").
InitRounds ==
    /\ rTool \in {"extended", "simple"}
    /\ \E d1 \in Documents, d2 \in Documents :
       \E place \in [Machines -> {"cwd", "repo"}] :
         /\ d1 # d2
         /\ rTool = "simple" => place = [m \in Machines |-> "cwd"]
         /\ rDocs = [m \in Machines |->
                        LET d == IF m = Me THEN d1 ELSE d2
                        IN  IF place[m] = "cwd"
                            THEN [orig |-> <<d>>, wc |-> EmptyTree,
                                  head |-> EmptyTree]
                            ELSE [orig |-> NoFile,
                                  wc |-> [EmptyTree EXCEPT !.md = <<d>>],
                                  head |-> EmptyTree]]
    /\ rRepo = EmptyTree
    /\ rTurn \in Machines
    /\ rCount = 0
    /\ rPrevDocs = rDocs
    /\ rPrevRepo = rRepo

\* the machine whose turn it is runs sync_git of claude-sync-extended.py
SyncExtended ==
    /\ rTool = "extended"
    /\ rCount < MaxSyncs
    /\ \E order \in Orders(Machines) :
         LET r == sync_git_both(rTurn, rDocs[rTurn], rRepo, order,
                                rCount + 1)
         IN  /\ rDocs' = [rDocs EXCEPT ![rTurn] = r.doc]
             /\ rRepo' = r.repo
    /\ rTurn' = other(rTurn)
    /\ rCount' = rCount + 1
    /\ rPrevDocs' = rDocs
    /\ rPrevRepo' = rRepo
    /\ UNCHANGED rTool
    /\ UNCHANGED <<cfgVars, dirVars, mdVars, sysVars, simpleVars>>

\* the machine whose turn it is runs sync_git of claude-sync.py
SyncSimple ==
    /\ rTool = "simple"
    /\ rCount < MaxSyncs
    /\ \E order \in Orders({LocalStem, OwnStem, ForeignStem}) :
         LET r == simple_sync_git_both(rTurn, rDocs[rTurn], rRepo, order)
         IN  /\ rDocs' = [rDocs EXCEPT ![rTurn] = r.doc]
             /\ rRepo' = r.repo
    /\ rTurn' = other(rTurn)
    /\ rCount' = rCount + 1
    /\ rPrevDocs' = rDocs
    /\ rPrevRepo' = rRepo
    /\ UNCHANGED rTool
    /\ UNCHANGED <<cfgVars, dirVars, mdVars, sysVars, simpleVars>>

IdleRounds ==
    /\ rTool = "none"
    /\ rDocs = EmptyMap
    /\ rRepo = EmptyTree
    /\ rTurn = Me
    /\ rCount = MaxSyncs
    /\ rPrevDocs = EmptyMap
    /\ rPrevRepo = EmptyTree

\* a behaviour is a machine running one of the two tools
Init ==
    /\ \/ InitExtended /\ IdleSimple
       \/ InitSimple /\ IdleSys
    /\ IdleConfig /\ IdleDir /\ IdleMd /\ IdleRounds

Next ==
    \/ Begin \/ PullHalf \/ PushHalf \/ Setup
    \/ SimpleBegin \/ SimplePull \/ SimplePush

Spec == Init /\ [][Next]_vars

\* ========================================================== specifications
InitSpecConfig ==
    InitConfig /\ IdleDir /\ IdleMd /\ IdleSys /\ IdleSimple /\ IdleRounds

NextConfig ==
    MergeConfig
        /\ UNCHANGED <<dirVars, mdVars, sysVars, simpleVars, roundVars>>

SpecConfig == InitSpecConfig /\ [][NextConfig]_vars

InitSpecDir ==
    InitDir /\ IdleConfig /\ IdleMd /\ IdleSys /\ IdleSimple /\ IdleRounds

NextDir ==
    MergeDir /\ UNCHANGED <<cfgVars, mdVars, sysVars, simpleVars, roundVars>>

SpecDir == InitSpecDir /\ [][NextDir]_vars

InitSpecMd ==
    InitMd /\ IdleConfig /\ IdleDir /\ IdleSys /\ IdleSimple /\ IdleRounds

NextMd ==
    MergeMd /\ UNCHANGED <<cfgVars, dirVars, sysVars, simpleVars, roundVars>>

SpecMd == InitSpecMd /\ [][NextMd]_vars

InitSpecRounds ==
    InitRounds /\ IdleConfig /\ IdleDir /\ IdleMd /\ IdleSys /\ IdleSimple

NextRounds == SyncExtended \/ SyncSimple

SpecRounds == InitSpecRounds /\ [][NextRounds]_vars

\* ================================================================== claims
\* the JSON object of a config file (the empty object when there is no file)
ObjOf(file) == IF Exists(file) THEN file[1].obj ELSE EmptyMap

\* a structured-config merge that loaded both sides has run
ConfigMerged ==
    /\ cfgPc = "merged"
    /\ Exists(cfgPre) => cfgPre[1].valid
    /\ cfgRemote[1].valid

\* C3: after merge_claude_config of local L and remote R, each of userID and
\* oauthAccount has in the written result exactly L's value, whatever R
\* holds; a preserve-set key that L lacks is absent from the result.
ThmPreserveKeys ==
    ConfigMerged =>
        /\ Exists(cfgLocal) /\ cfgLocal[1].valid
        /\ \A k \in {"userID", "oauthAccount"} :
              IF k \in DOMAIN ObjOf(cfgPre)
              THEN /\ k \in DOMAIN ObjOf(cfgLocal)
                   /\ ObjOf(cfgLocal)[k] = ObjOf(cfgPre)[k]
              ELSE k \notin DOMAIN ObjOf(cfgLocal)

WitPreserveKeys ==
    /\ ConfigMerged
    /\ "userID" \in DOMAIN ObjOf(cfgPre)
    /\ "userID" \in DOMAIN ObjOf(cfgRemote)
    /\ ObjOf(cfgPre)["userID"] # ObjOf(cfgRemote)["userID"]
    /\ "oauthAccount" \notin DOMAIN ObjOf(cfgPre)
    /\ "oauthAccount" \in DOMAIN ObjOf(cfgRemote)

ProjectsOf(obj) == IF "projects" \in DOMAIN obj THEN obj["projects"] ELSE EmptyMap
McpOf(entry) == IF "mcpServers" \in DOMAIN entry THEN entry["mcpServers"] ELSE EmptyMap

\* C6: in the merged projects map a project only in R has R's entry; a
\* project in both has mcpServers = L's sub-map updated key by key with R's
\* (R wins) and every other sub-field as in L; a project only in L is kept.
ThmProjectsMerge ==
    ConfigMerged =>
        LET LP == ProjectsOf(ObjOf(cfgPre))
            RP == ProjectsOf(ObjOf(cfgRemote))
            res == ProjectsOf(ObjOf(cfgLocal))
        IN  /\ DOMAIN res = DOMAIN LP \cup DOMAIN RP
            /\ ("projects" \in DOMAIN ObjOf(cfgLocal)) <=>
                   ("projects" \in DOMAIN ObjOf(cfgPre)
                       \/ "projects" \in DOMAIN ObjOf(cfgRemote))
            /\ \A p \in DOMAIN RP \ DOMAIN LP : res[p] = RP[p]
            /\ \A p \in DOMAIN LP \ DOMAIN RP : res[p] = LP[p]
            /\ \A p \in DOMAIN LP \cap DOMAIN RP :
                 /\ DOMAIN McpOf(res[p]) =
                        DOMAIN McpOf(LP[p]) \cup DOMAIN McpOf(RP[p])
                 /\ \A k \in DOMAIN McpOf(res[p]) :
                        McpOf(res[p])[k] =
                            IF k \in DOMAIN McpOf(RP[p]) THEN McpOf(RP[p])[k]
                            ELSE McpOf(LP[p])[k]
                 /\ ("mcpServers" \in DOMAIN res[p]) <=>
                        ("mcpServers" \in DOMAIN LP[p]
                            \/ "mcpServers" \in DOMAIN RP[p])
                 /\ DOMAIN res[p] \ {"mcpServers"} = DOMAIN LP[p] \ {"mcpServers"}
                 /\ \A f \in DOMAIN LP[p] \ {"mcpServers"} : res[p][f] = LP[p][f]

WitProjectsMerge ==
    /\ ConfigMerged
    /\ "/a" \in DOMAIN ProjectsOf(ObjOf(cfgPre))
    /\ "/a" \in DOMAIN ProjectsOf(ObjOf(cfgRemote))
    /\ LET l == ProjectsOf(ObjOf(cfgPre))["/a"]
           r == ProjectsOf(ObjOf(cfgRemote))["/a"]
       IN  /\ DOMAIN McpOf(l) = {"x", "y"}
           /\ DOMAIN McpOf(r) = {"x"}
           /\ McpOf(l)["x"] # McpOf(r)["x"]
           /\ "allowedTools" \in DOMAIN l
           /\ "allowedTools" \notin DOMAIN r

ScenarioL ==
    ("userID" :> "u1") @@ ("projects" :> ("/a" :> ("mcpServers" :> ("x" :> 1))))
ScenarioR ==
    ("userID" :> "u2") @@ ("tip" :> "t")
        @@ ("projects" :> ("/a" :> ("mcpServers" :> ("y" :> 2))))
ScenarioMerged ==
    ("userID" :> "u1") @@ ("tip" :> "t")
        @@ ("projects" :> ("/a" :> ("mcpServers" :> (("x" :> 1) @@ ("y" :> 2)))))

\* C7: every top-level key of R outside the preserve-set and "projects" has
\* R's value in the result; every top-level key of L that R lacks keeps L's
\* value; the scenario of the specification yields the stated object.
ThmTopLevelKeys ==
    ConfigMerged =>
        LET L == ObjOf(cfgPre)
            R == ObjOf(cfgRemote)
            res == ObjOf(cfgLocal)
        IN  /\ \A k \in DOMAIN R \ {"userID", "oauthAccount", "projects"} :
                   k \in DOMAIN res /\ res[k] = R[k]
            /\ \A k \in DOMAIN L \ DOMAIN R :
                   k \in DOMAIN res /\ res[k] = L[k]
            /\ (L = ScenarioL /\ R = ScenarioR) => res = ScenarioMerged

WitTopLevelKeys ==
    /\ ConfigMerged
    /\ ObjOf(cfgPre) = ScenarioL
    /\ ObjOf(cfgRemote) = ScenarioR
    /\ ObjOf(cfgLocal) = ScenarioMerged

\* a directory merge has run
TreeOf(dir) == IF Exists(dir) THEN dir[1] ELSE EmptyMap

\* C1 (as claimed): after an append-mode merge every file that existed
\* locally has its pre-merge content, and every remote file without a local
\* counterpart has been copied in with the remote content.
CexAppendKeepsLocal ==
    (dirPc = "merged" /\ dirMode = "append") =>
        /\ \A p \in DOMAIN TreeOf(dirPre) :
               /\ p \in DOMAIN TreeOf(dirLocal)
               /\ TreeOf(dirLocal)[p].content = TreeOf(dirPre)[p].content
        /\ \A p \in DOMAIN dirRemote \ DOMAIN TreeOf(dirPre) :
               /\ p \in DOMAIN TreeOf(dirLocal)
               /\ TreeOf(dirLocal)[p].content = dirRemote[p].content

\* C9: after an update-mode merge a file on both sides is the remote file
\* exactly when the remote modification time is strictly greater, and is the
\* untouched local file otherwise; a remote-only file is copied in; a
\* local-only file is unchanged.
ThmUpdateMode ==
    (dirPc = "merged" /\ dirMode = "update") =>
        LET pre == TreeOf(dirPre)
            post == TreeOf(dirLocal)
        IN  /\ Exists(dirLocal)
            /\ DOMAIN post = DOMAIN pre \cup DOMAIN dirRemote
            /\ \A p \in DOMAIN pre \cap DOMAIN dirRemote :
                   IF dirRemote[p].mtime > pre[p].mtime
                   THEN post[p] = dirRemote[p]
                   ELSE post[p] = pre[p]
            /\ \A p \in DOMAIN dirRemote \ DOMAIN pre : post[p] = dirRemote[p]
            /\ \A p \in DOMAIN pre \ DOMAIN dirRemote : post[p] = pre[p]

WitUpdateMode ==
    /\ dirPc = "merged"
    /\ dirMode = "update"
    /\ DOMAIN TreeOf(dirPre) = {"f1", "f2"}
    /\ DOMAIN dirRemote = {"f1", "f2"}
    /\ dirRemote["f1"].mtime > TreeOf(dirPre)["f1"].mtime
    /\ dirRemote["f1"].content # TreeOf(dirPre)["f1"].content
    /\ dirRemote["f2"].mtime = TreeOf(dirPre)["f2"].mtime
    /\ dirRemote["f2"].content # TreeOf(dirPre)["f2"].content
    /\ TreeOf(dirLocal)["f1"] = dirRemote["f1"]
    /\ TreeOf(dirLocal)["f2"] = TreeOf(dirPre)["f2"]

IsPrefix(s, t) == Len(s) <= Len(t) /\ SubSeq(t, 1, Len(s)) = s

\* C4: merging the same remote document a second time changes nothing: the
\* local content (and the backup) after the second merge are those after
\* the first, whether or not a local file existed before the first merge.
ThmMergeIdempotent ==
    (mdCount >= 2 /\ mdPrevRemote = <<mdRemote>>) =>
        /\ mdLocal = mdPre
        /\ mdBackup = mdPreBackup

WitMergeIdempotent ==
    /\ mdCount = 2
    /\ mdPrevRemote = <<mdRemote>>
    /\ Exists(mdOrig)
    /\ mdLocal # mdOrig
    /\ mdLocal = mdPre
    /\ strip(mdRemote) # mdRemote

\* C8: a merge into no local file makes the remote content the local file
\* and writes no backup; a merge into a local file that does not contain the
\* remote's trimmed text backs up the original content and makes the local
\* content  original, two newlines, "# Merged from <source>", two newlines,
\* remote; every earlier local content is a prefix of the later one.
ThmMergeStep ==
    mdCount >= 1 =>
        /\ ~Exists(mdPre) => (mdLocal = <<mdRemote>> /\ mdBackup = mdPreBackup)
        /\ (Exists(mdPre) /\ ~Contains(strip(mdRemote), mdPre[1])) =>
              /\ mdBackup = mdPre
              /\ mdLocal = <<mdPre[1] \o <<"\n", "\n">>
                              \o <<"#", " ", "M", "e", "r", "g", "e", "d", " ",
                                   "f", "r", "o", "m", " ">> \o mdSrc
                              \o <<"\n", "\n">> \o mdRemote>>
        /\ Exists(mdLocal)
        /\ Exists(mdPre) => IsPrefix(mdPre[1], mdLocal[1])
        /\ Exists(mdOrig) => IsPrefix(mdOrig[1], mdLocal[1])

WitMergeStep ==
    /\ mdCount = 2
    /\ Exists(mdOrig)
    /\ mdBackup = mdPre
    /\ mdPre # mdOrig
    /\ mdLocal # mdPre
    /\ mdOrig[1] = <<"a">>
    /\ mdRemote = <<"b">>


\* the staged item names listed by the metadata of a staging tree
ListedItems(tree) == Range(tree.meta[1].obj["synced_items"])

\* C5 (as claimed): the synced_items list of the metadata written by
\* prepare_sync_data names exactly the items copied into the staging tree.
CexSyncedItemsStaged ==
    Exists(staging) => ListedItems(staging[1]) = DOMAIN staging[1].entries

\* the item names of a tier
TierItems(level) ==
    IF level = "full"
    THEN {"claude_config", "claude_settings", "context_file", "session_data",
          "todos", "shell_snapshots", "slash_commands"}
    ELSE {"claude_config", "claude_settings", "context_file", "session_data",
          "todos"}

\* C10: the staging tree holds only entries of the item set of the tier the
\* latest staging ran under; an entry of an earlier staging under another
\* tier does not remain.
ThmStagingTier ==
    Exists(staging) =>
        /\ DOMAIN staging[1].entries \subseteq TierItems(stagedLevel)
        /\ Exists(prevStaging) =>
              \A i \in DOMAIN prevStaging[1].entries :
                  i \notin TierItems(stagedLevel) =>
                      i \notin DOMAIN staging[1].entries

WitStagingTier ==
    /\ Exists(prevStaging)
    /\ "shell_snapshots" \in DOMAIN prevStaging[1].entries
    /\ Exists(staging)
    /\ stagedLevel = "essential"
    /\ "todos" \in DOMAIN staging[1].entries
    /\ "shell_snapshots" \notin DOMAIN staging[1].entries

\* C2 (as claimed): when a pull has changed the content of a local file that
\* existed before it, under the plain-file strategy or a directory strategy,
\* a backup of that file holds the pre-merge content.
CexBackupBeforeOverwrite ==
    \A i \in HomeItems \ {"claude_config"} :
        (Exists(preHome[i]) /\ Exists(home[i])) =>
            IF i \in TreeItems
            THEN \A p \in DOMAIN preHome[i][1] \cap DOMAIN home[i][1] :
                    home[i][1][p].content # preHome[i][1][p].content =>
                        /\ <<i, p>> \in DOMAIN backups
                        /\ backups[<<i, p>>].content = preHome[i][1][p].content
            ELSE home[i][1].content # preHome[i][1].content =>
                    /\ <<i>> \in DOMAIN backups
                    /\ backups[<<i>>].content = preHome[i][1].content

\* ---------------------------------------------------- the sync orchestrator
\* the machine directories of the working copy other than this machine's
PulledDirs ==
    IF Exists(wc)
    THEN [m \in DOMAIN wc[1].dirs \ {<<"m", "1">>} |-> wc[1].dirs[m]]
    ELSE EmptyMap

\* metadata.json of a machine directory can be used: it parses and has the
\* fields the pull reads
MetaUsable(dir) ==
    /\ Exists(dir.meta)
    /\ dir.meta[1].valid
    /\ {"hostname", "timestamp"} \subseteq DOMAIN dir.meta[1].obj

\* no machine directory pulled has a metadata.json that cannot be used
MetaReadable ==
    \A m \in DOMAIN PulledDirs :
        Exists(PulledDirs[m].meta) => MetaUsable(PulledDirs[m])

\* the (machine, item) pairs a pull has to merge: the items a usable
\* metadata.json lists that are staged and in the catalog
ExpectedPairs ==
    {pr \in (DOMAIN PulledDirs) \X
             {"claude_config", "claude_settings", "context_file",
              "session_data", "todos", "shell_snapshots", "slash_commands"} :
        LET dir == PulledDirs[pr[1]]
        IN  /\ MetaUsable(dir)
            /\ pr[2] \in DOMAIN dir.entries
            /\ "synced_items" \in DOMAIN dir.meta[1].obj
            /\ \E k \in DOMAIN dir.meta[1].obj["synced_items"] :
                   dir.meta[1].obj["synced_items"][k] = pr[2]}

\* the restore loop of the running (or last) sync_git call has run
Restored == \E k \in DOMAIN opLog.git : opLog.git[k] = "pull"

SeqSet(seq) == {seq[k] : k \in DOMAIN seq}

\* C11 (as claimed): no pull hands an entry this machine itself pushed (the
\* directory, or the CLAUDE-<id>.md file, named by its own machine id) to
\* the merge engine.
CexNoSelfMerge ==
    /\ \A k \in DOMAIN opLog.attempted : opLog.attempted[k][1] # <<"m", "1">>
    /\ \A k \in DOMAIN sLog.merged :
           sLog.merged[k] # <<"C", "L", "A", "U", "D", "E", "-", "m", "1">>

\* C12: when the merge of an item raises, the error is recorded for that
\* item only: every item the pull has to merge, of that machine and of the
\* machine directories listed after it, is still attempted, and the call
\* does not end with the exception.
ThmItemFailureIsolated ==
    (opLog.errors # <<>> /\ MetaReadable) =>
        /\ SeqSet(opLog.errors) \subseteq SeqSet(opLog.attempted)
        /\ SeqSet(opLog.attempted) = ExpectedPairs
        /\ opLog.result \in {"running", "ok", "failed"}
        /\ (pc = "idle" /\ opLog.op = "both") => opLog.staged

WitItemFailureIsolated ==
    /\ opLog.errors = <<<<(<<"m", "2">>), "claude_settings">>>>
    /\ Len(opLog.attempted) = 7
    /\ opLog.attempted[2] = <<(<<"m", "2">>), "claude_settings">>
    /\ opLog.attempted[6] = <<(<<"m", "2">>), "shell_snapshots">>
    /\ opLog.attempted[7] = <<(<<"m", "3">>), "todos">>
    /\ home["claude_settings"] = preHome["claude_settings"]
    /\ Exists(home["todos"])
    /\ "f2" \in DOMAIN home["todos"][1]
    /\ home["todos"][1]["f2"].content = "c"

\* C13 (as claimed): for operation both, when git pull fails the push half
\* still runs: the staging tree is built and git push is issued.
CexPullFailureThenPush ==
    /\ (pc = "idle" /\ opLog.op = "both"
            /\ "pull failed" \in SeqSet(opLog.git)) =>
           /\ opLog.staged
           /\ SeqSet(opLog.git) \cap {"add failed", "push", "push failed"} # {}
    /\ (sPc = "idle" /\ sLog.op = "both" /\ Exists(sOrigMd)
            /\ "pull failed" \in SeqSet(sLog.git)) =>
           /\ sLog.staged
           /\ SeqSet(sLog.git) \cap {"push", "push failed"} # {}

\* C14 (as claimed): no sync_git call ends with an exception; a machine
\* directory whose metadata.json cannot be used is skipped, the others are
\* merged, and for operation both the push half runs.
CexBadMetadataSkipped ==
    /\ opLog.result # "raised"
    /\ Restored => SeqSet(opLog.attempted) = ExpectedPairs
    /\ (Restored /\ pc = "idle" /\ opLog.op = "both") => opLog.staged

\* C15 (as claimed): the context file a push stages is CLAUDE.md of the
\* directory the tool was invoked from, and no pull writes CLAUDE.md or its
\* backup inside the working copy.
CexContextFileOfInvokingDir ==
    /\ Exists(wc) => (wc[1].md = NoFile /\ wc[1].bak = NoFile)
    /\ (Exists(staging) /\ Exists(origMd)) =>
           /\ "context_file" \in DOMAIN staging[1].entries
           /\ staging[1].entries["context_file"] = origMd[1]
    /\ Exists(sRepo) => sRepo[1].bak = NoFile

\* C16: when the pulled claude_config or the local ~/.claude.json does not
\* parse, the merge of that item leaves ~/.claude.json exactly as it was,
\* no error leaves the item, and every other item the pull has to merge is
\* still attempted.
ThmMalformedConfigIsolated ==
    LET item == <<(<<"m", "2">>), "claude_config">>
        source_file == PulledDirs[<<"m", "2">>].entries["claude_config"]
        dest_file == preHome["claude_config"]
    IN  (item \in SeqSet(opLog.attempted)
             /\ (~source_file.valid
                    \/ (Exists(dest_file) /\ ~dest_file[1].valid))) =>
            /\ home["claude_config"] = dest_file
            /\ item \notin SeqSet(opLog.errors)
            /\ MetaReadable =>
                  /\ SeqSet(opLog.attempted) = ExpectedPairs
                  /\ opLog.result # "raised"

WitMalformedConfigIsolated ==
    /\ <<(<<"m", "2">>), "claude_config">> \in SeqSet(opLog.attempted)
    /\ ~PulledDirs[<<"m", "2">>].entries["claude_config"].valid
    /\ Exists(preHome["claude_config"])
    /\ preHome["claude_config"][1].valid
    /\ home["claude_config"] = preHome["claude_config"]
    /\ opLog.attempted[Len(opLog.attempted)] = <<(<<"m", "2">>), "todos">>
    /\ "f2" \in DOMAIN home["todos"][1]
    /\ "f2" \notin DOMAIN preHome["todos"][1]

\* C17: after the plain-file merge of claude_settings the local file is the
\* pulled file (content and modification time); if a local file existed,
\* settings.local.json.bak holds its pre-merge content; if none existed, no
\* backup is written.
ThmPlainFile ==
    LET item == <<(<<"m", "2">>), "claude_settings">>
    IN  (item \in SeqSet(opLog.attempted)
             /\ item \notin SeqSet(opLog.errors)) =>
            /\ home["claude_settings"] =
                   <<PulledDirs[<<"m", "2">>].entries["claude_settings"]>>
            /\ IF Exists(preHome["claude_settings"])
               THEN /\ <<"claude_settings">> \in DOMAIN backups
                    /\ backups[<<"claude_settings">>] =
                           preHome["claude_settings"][1]
               ELSE backups = preBackups

WitPlainFile ==
    /\ <<(<<"m", "2">>), "claude_settings">> \in SeqSet(opLog.attempted)
    /\ opLog.errors = <<>>
    /\ Exists(preHome["claude_settings"])
    /\ preHome["claude_settings"][1].content = "a"
    /\ home["claude_settings"][1] = [content |-> "b", mtime |-> 1]
    /\ backups[<<"claude_settings">>].content = "a"

\* C18: when there is no working copy and git clone fails, sync_git ends
\* with failure having done nothing else: no git command after the clone,
\* no item merged, nothing staged, no working copy, local state unchanged.
ThmCloneFailureAborts ==
    /\ "clone failed" \in SeqSet(opLog.git) =>
           /\ opLog.git = <<"clone failed">>
           /\ opLog.result = "failed"
           /\ pc = "idle"
           /\ opLog.attempted = <<>>
           /\ ~opLog.staged
           /\ wc = NoFile
           /\ staging = NoFile
           /\ home = preHome
           /\ backups = preBackups
    /\ "clone failed" \in SeqSet(sLog.git) =>
           /\ sLog.git = <<"clone failed">>
           /\ sLog.result = "failed"
           /\ sPc = "idle"
           /\ sLog.merged = <<>>
           /\ ~sLog.staged
           /\ sRepo = NoFile

WitCloneFailureAborts ==
    /\ opLog.op = "both"
    /\ opLog.git = <<"clone failed">>
    /\ opLog.result = "failed"
    /\ opCount = 2

\* C19: a machine directory without metadata.json, a listed item that is
\* not in the catalog and a listed item that is not staged are passed over:
\* none is attempted, none is reported as an error, no live item is changed
\* on their account, and every other item the pull has to merge is
\* attempted.
ThmSkipsSilently ==
    (Restored /\ MetaReadable) =>
        /\ \A k \in DOMAIN opLog.attempted :
               LET m == opLog.attempted[k][1]
                   i == opLog.attempted[k][2]
               IN  /\ m \in DOMAIN PulledDirs
                   /\ Exists(PulledDirs[m].meta)
                   /\ i \in DOMAIN PulledDirs[m].entries
                   /\ i \in {"claude_config", "claude_settings",
                             "context_file", "session_data", "todos",
                             "shell_snapshots", "slash_commands"}
        /\ SeqSet(opLog.errors) \subseteq SeqSet(opLog.attempted)
        /\ SeqSet(opLog.attempted) = ExpectedPairs
        /\ \A i \in DOMAIN home :
               (\A k \in DOMAIN opLog.attempted : opLog.attempted[k][2] # i)
                   => home[i] = preHome[i]
        /\ opLog.result # "raised"

WitSkipsSilently ==
    /\ Restored
    /\ DOMAIN PulledDirs = {<<"m", "2">>}
    /\ "future_item" \in DOMAIN PulledDirs[<<"m", "2">>].entries
    /\ "future_item" \in SeqSet(PulledDirs[<<"m", "2">>].meta[1].obj["synced_items"])
    /\ "claude_settings" \in SeqSet(PulledDirs[<<"m", "2">>].meta[1].obj["synced_items"])
    /\ "claude_settings" \notin DOMAIN PulledDirs[<<"m", "2">>].entries
    /\ SeqSet(opLog.attempted) =
           {<<(<<"m", "2">>), "claude_config">>, <<(<<"m", "2">>), "todos">>}
    /\ opLog.result = "ok"

\* C20: a git commit that exits non-zero is followed by git push, and the
\* call can still succeed; the call ends in failure when git push fails and
\* in success when git push succeeds.
ThmCommitNotFatal ==
    /\ \A k \in DOMAIN opLog.git :
           opLog.git[k] = "commit failed" =>
               /\ k < Len(opLog.git)
               /\ opLog.git[k + 1] \in {"push", "push failed"}
    /\ "push failed" \in SeqSet(opLog.git) => opLog.result = "failed"
    /\ "push" \in SeqSet(opLog.git) => opLog.result = "ok"
    /\ \A k \in DOMAIN sLog.git :
           sLog.git[k] = "commit failed" =>
               /\ k < Len(sLog.git)
               /\ sLog.git[k + 1] \in {"push", "push failed"}
    /\ "push failed" \in SeqSet(sLog.git) => sLog.result = "failed"
    /\ "push" \in SeqSet(sLog.git) => sLog.result = "ok"

WitCommitNotFatal ==
    /\ "commit failed" \in SeqSet(opLog.git)
    /\ "push" \in SeqSet(opLog.git)
    /\ opLog.result = "ok"
    /\ opLog.staged

\* C21: the push half leaves in the working copy, as this machine's
\* directory, exactly the staging tree it has just built (no entry of an
\* earlier push that the fresh tree lacks), and leaves every other
\* machine's directory as it was.
ThmPushReplacesOwnDir ==
    [][pc = "push" =>
          /\ Exists(wc') /\ Exists(staging')
          /\ DOMAIN wc'[1].dirs = DOMAIN wc[1].dirs \cup {<<"m", "1">>}
          /\ wc'[1].dirs[<<"m", "1">>] = staging'[1]
          /\ \A m \in DOMAIN wc[1].dirs \ {<<"m", "1">>} :
                 wc'[1].dirs[m] = wc[1].dirs[m]]_vars

WitPushReplacesOwnDir ==
    /\ pc = "idle"
    /\ opLog.staged
    /\ Exists(prevStaging)
    /\ "shell_snapshots" \in DOMAIN prevStaging[1].entries
    /\ "shell_snapshots" \notin DOMAIN staging[1].entries
    /\ wc[1].dirs[<<"m", "1">>] = staging[1]
    /\ "todos" \in DOMAIN wc[1].dirs[<<"m", "1">>].entries
    /\ <<"m", "2">> \in DOMAIN wc[1].dirs

\* ------------------------------------------------ two machines in turn
\* each machine's context documents: CLAUDE.md where the tool is invoked,
\* and CLAUDE.md and its backup in the working copy
LocalDocs(docs) ==
    [m \in DOMAIN docs |->
        [orig |-> docs[m].orig, md |-> docs[m].wc.md, bak |-> docs[m].wc.bak]]

\* a tree of the repository without the time of the pushes
Undated(tree) ==
    IF rTool # "extended" THEN tree
    ELSE [tree EXCEPT !.snaps =
             [m \in DOMAIN @ |->
                 [@[m] EXCEPT !.meta =
                     <<[k \in DOMAIN @[1].obj \ {"timestamp"} |->
                           @[1].obj[k]]>>]]]

\* C22 (as claimed): two machines that start with different context
\* documents and sync in turn reach a fixed point: by the last sync of a
\* behaviour, a sync changes neither any machine's context document nor
\* the snapshots the repository holds.
CexSyncConverges ==
    rCount = MaxSyncs =>
        /\ LocalDocs(rDocs) = LocalDocs(rPrevDocs)
        /\ rRepo.snaps = rPrevRepo.snaps

\* C22 (amended): from the fifth sync on, a sync changes neither any
\* machine's context document nor anything the repository holds, apart
\* from the timestamp in the metadata of the machine that syncs.
ThmSyncConverges ==
    rCount > 4 =>
        /\ LocalDocs(rDocs) = LocalDocs(rPrevDocs)
        /\ Undated(rRepo) = Undated(rPrevRepo)

\* both machines hold the same merged document, made of the two they
\* started with, and the sixth sync has changed nothing
WitSyncConverges ==
    /\ rTool = "simple"
    /\ rCount > 4
    /\ \A m \in {<<"m", "1">>, <<"m", "2">>} :
          /\ Exists(rDocs[m].wc.md) /\ Exists(rDocs[m].wc.bak)
          /\ Len(rDocs[m].wc.md[1]) > Len(rDocs[m].orig[1])
          /\ rDocs[m].wc.md = rRepo.md
    /\ rDocs[<<"m", "1">>].orig # rDocs[<<"m", "2">>].orig
    /\ LocalDocs(rDocs) = LocalDocs(rPrevDocs)
    /\ rRepo = rPrevRepo

====
